---- MODULE Spec2Model ----
(***************************************************************************)
(* A model of tap.py: the search "AST" (matchers with match/filter), the   *)
(* query compiler make_search, the search command (match, sort, classify,  *)
(* print) and the format option compiler search_format.                    *)
(*                                                                         *)
(* Python strings are sequences of one-character strings, so that slicing, *)
(* find(), substring tests and lexicographic comparison are computed the   *)
(* way Python computes them.                                               *)
(***************************************************************************)
EXTENDS Integers, Sequences, FiniteSets, TLC

VARIABLES
    cache,      \* apt.Cache(): the sequence of packages the index iterates
    defarch,    \* apt_pkg.config.find("APT::Architecture")
    args,       \* search(config, args): the pattern tokens
    pc,         \* position inside search()
    conds,      \* search.conds: the per-token matchers compiled so far
    cond,       \* search.cond: the root matcher (None when there is no token)
    opened,     \* whether apt.Cache() has been constructed
    matched,    \* [cond.match(p) for p in cache], as far as it was evaluated
    results,    \* search.results
    stdout,     \* the lines printed so far
    exc,        \* the exception that left search(), if any
    ret,        \* the value search() returned
    m,          \* matcher algebra: the matcher under evaluation
    input,      \* matcher algebra: the sequence handed to m.filter
    mres,       \* matcher algebra: outcome of m.match(package)
    fres,       \* matcher algebra: outcome of m.filter(input)
    ares,       \* matcher algebra: outcome of m.filter(all possible matches)
    target,     \* search_format: the config key being set
    argv,       \* search_format: the remaining command line
    config,     \* search_format: the config map (a function on its set keys)
    fexc,       \* search_format: the exception raised, if any
    fpc,        \* search_format: "call" before, "done" after
    item,       \* classification: the (name, version) being classified
    flags       \* classification: the display flags computed for item

searchVars == <<args, pc, conds, cond, opened, matched, results, stdout, exc, ret>>
algVars == <<m, input, mres, fres, ares>>
fmtVars == <<target, argv, config, fexc, fpc>>
clsVars == <<item, flags>>
vars == <<cache, defarch, searchVars, algVars, fmtVars, clsVars>>

----------------------------------------------------------------------------
(* Bounds of the model. *)

MaxArgs == 2      \* pattern tokens per search
MaxPkgs == 2      \* packages in the index
MaxInput == 2     \* length of a sequence handed to filter
MaxFmtLen == 3    \* characters of a format override

----------------------------------------------------------------------------
(* Python strings and sequences. *)

Ord(c) ==
    CASE c = "%" -> 37 [] c = "-" -> 45 [] c = "1" -> 49 [] c = "2" -> 50
      [] c = "3" -> 51 [] c = "4" -> 52 [] c = "6" -> 54 [] c = "8" -> 56
      [] c = "A" -> 65 [] c = "X" -> 88
      [] c = "a" -> 97 [] c = "b" -> 98 [] c = "d" -> 100 [] c = "i" -> 105
      [] c = "l" -> 108 [] c = "m" -> 109 [] c = "n" -> 110 [] c = "p" -> 112
      [] c = "s" -> 115 [] c = "u" -> 117 [] c = "v" -> 118 [] c = "x" -> 120
      [] c = "y" -> 121 [] c = "|" -> 124 [] c = "~" -> 126

\* str < str
StrLess(s, t) ==
    \E i \in 1..(Len(s) + 1) :
        /\ \A j \in 1..(i - 1) : j <= Len(t) /\ s[j] = t[j]
        /\ \/ i = Len(s) + 1 /\ Len(t) >= i
           \/ i <= Len(s) /\ i <= Len(t) /\ Ord(s[i]) < Ord(t[i])

\* tuple < tuple for tuples of three strings
KeyLess(k, l) ==
    \/ StrLess(k[1], l[1])
    \/ k[1] = l[1] /\ StrLess(k[2], l[2])
    \/ k[1] = l[1] /\ k[2] = l[2] /\ StrLess(k[3], l[3])

\* s[n:]
From(s, n) == SubSeq(s, n + 1, Len(s))

\* s[:n]
UpTo(s, n) == SubSeq(s, 1, n)

\* s.find(c): the 0-based index of the first c, -1 when there is none
Find(s, c) ==
    IF \E i \in 1..Len(s) : s[i] = c
    THEN (CHOOSE i \in 1..Len(s) : s[i] = c /\ \A j \in 1..(i - 1) : s[j] # c) - 1
    ELSE -1

\* sub in s
IsSubstring(sub, s) ==
    \E i \in 0..(Len(s) - Len(sub)) : SubSeq(s, i + 1, i + Len(sub)) = sub

\* str.lower()
LowerChar(c) == CASE c = "A" -> "a" [] c = "X" -> "x" [] OTHER -> c

Lower(s) == [i \in 1..Len(s) |-> LowerChar(s[i])]

Range(s) == {s[i] : i \in 1..Len(s)}

RECURSIVE Concat(_)
\* itertools.chain(*ss)
Concat(ss) == IF ss = <<>> THEN <<>> ELSE Head(ss) \o Concat(Tail(ss))

\* the sequences over S of length at most n
SeqsUpTo(S, n) == UNION {[1..k -> S] : k \in 0..n}

\* the sequences over S of length at most n without a repeated element
DistinctSeqsUpTo(S, n) ==
    {s \in SeqsUpTo(S, n) : \A i, j \in 1..Len(s) : s[i] = s[j] => i = j}

----------------------------------------------------------------------------
(* The Package Index: apt.Cache, apt.Package, apt.Version. *)

None == [none |-> TRUE]

amd64 == <<"a", "m", "d", "6", "4">>
i386 == <<"i", "3", "8", "6">>
all == <<"a", "l", "l">>
any == <<"a", "n", "y">>

\* apt_pkg.CURSTATE_*
CurStates ==
    {"NOT_INSTALLED", "UNPACKED", "HALF_CONFIGURED", "HALF_INSTALLED",
     "CONFIG_FILES", "INSTALLED", "TRIGGERS_AWAITED", "TRIGGERS_PENDING"}

\* apt_pkg.SELSTATE_*
SelStates == {"UNKNOWN", "INSTALL", "HOLD", "DEINSTALL", "PURGE", "OTHER"}

Version(version, architecture, provides, long_desc) ==
    [version |-> version, architecture |-> architecture, provides |-> provides,
     long_desc |-> long_desc, summary |-> long_desc]

\* installed and candidate are 0 for None, else an index into versions
Package(name, versions, installed, candidate, current_state) ==
    [name |-> name, versions |-> versions, installed |-> installed,
     candidate |-> candidate, is_now_broken |-> FALSE,
     current_state |-> current_state, selected_state |-> "INSTALL",
     is_auto_installed |-> FALSE, is_auto_removable |-> FALSE,
     is_upgradable |-> FALSE]

\* package a: two versions, newest first; the older one provides b
PkgA ==
    Package(<<"a">>,
            <<Version(<<"2">>, amd64, <<>>, <<"X">>),
              Version(<<"1">>, i386, <<<<"b">>>>, <<"y">>)>>,
            1, 1, "INSTALLED")

\* package b: one version whose provides list repeats a name
PkgB ==
    Package(<<"b">>,
            <<Version(<<"1">>, all, <<<<"a">>, <<"a">>>>, <<"x">>)>>,
            0, 1, "NOT_INSTALLED")

\* package ab: one version that provides the package's own name
PkgAB ==
    Package(<<"a", "b">>,
            <<Version(<<"1">>, amd64, <<<<"a", "b">>>>, <<"y">>)>>,
            0, 0, "CONFIG_FILES")

PackagePool == {PkgA, PkgB, PkgAB}

Caches == DistinctSeqsUpTo(PackagePool, MaxPkgs)

Archs == {amd64, i386}

\* version.package: a version is referred to by its package's name and its
\* index in package.versions
PackageOf(v) == CHOOSE p \in Range(cache) : p.name = v.package

VersionOf(v) == PackageOf(v).versions[v.idx]

Ref(package, i) == [package |-> package.name, idx |-> i]

\* package.versions, as references
Versions(package) == [i \in 1..Len(package.versions) |-> Ref(package, i)]

\* package.installed
Installed_(package) ==
    IF package.installed = 0 THEN None ELSE Ref(package, package.installed)

\* package.candidate
Candidate(package) ==
    IF package.candidate = 0 THEN None ELSE Ref(package, package.candidate)

----------------------------------------------------------------------------
(* The search "AST": text predicates and matchers. *)

\* A match is the pair (displayed name, version); item[1] is Python's item[0].
namever_key(it) == <<it[1], PackageOf(it[2]).name, VersionOf(it[2]).version>>

RECURSIVE Insert(_, _)
\* it goes after every element whose key is not greater (the sort is stable)
Insert(sorted, it) ==
    IF sorted = <<>> THEN <<it>>
    ELSE IF KeyLess(namever_key(it), namever_key(Head(sorted)))
         THEN <<it>> \o sorted
         ELSE <<Head(sorted)>> \o Insert(Tail(sorted), it)

RECURSIVE SortedByKey(_)
\* sorted(s, key=namever_key)
SortedByKey(s) ==
    IF s = <<>> THEN <<>>
    ELSE Insert(SortedByKey(UpTo(s, Len(s) - 1)), s[Len(s)])

Contains(search) == [tag |-> "Contains", search |-> search]

ContainsNoCase(search) == [tag |-> "ContainsNoCase", search |-> Lower(search)]

\* Contains.__call__, ContainsNoCase.__call__
Call(matcher, text) ==
    IF matcher.tag = "Contains"
    THEN IsSubstring(matcher.search, text)
    ELSE IsSubstring(matcher.search, Lower(text))

MatchName(matcher) == [tag |-> "MatchName", matcher |-> matcher]

MatchDesc(matcher) == [tag |-> "MatchDesc", matcher |-> matcher]

Installed == [tag |-> "Installed"]

Nonvirtual == [tag |-> "Nonvirtual"]

\* MatchArch.__init__: "not arch" holds of None and of the empty string, both
\* written <<>> here
MatchArch(arch) ==
    [tag |-> "MatchArch",
     arch |-> IF arch = <<>> THEN <<defarch, all>> ELSE <<arch>>]

AndCombiner(left, right) == [tag |-> "AndCombiner", left |-> left, right |-> right]

OrCombiner(left, right) == [tag |-> "OrCombiner", left |-> left, right |-> right]

\* make_search's "lambda pkg: []": a function object, with no match or filter
Lambda == [tag |-> "lambda"]

\* (provides, v) for provides in v.provides
ProvidesOf(package, i) ==
    [k \in 1..Len(package.versions[i].provides) |->
        <<package.versions[i].provides[k], Ref(package, i)>>]

\* (package.name, v) for v in package.versions
OwnNames(package) ==
    [i \in 1..Len(package.versions) |-> <<package.name, Ref(package, i)>>]

RECURSIVE MatchName_provides(_, _, _)
MatchName_provides(matcher, package, i) ==
    IF i > Len(package.versions) THEN <<>>
    ELSE SelectSeq(ProvidesOf(package, i), LAMBDA it : Call(matcher, it[1]))
         \o MatchName_provides(matcher, package, i + 1)

MatchName_match(self, package) ==
    SortedByKey(
        MatchName_provides(self.matcher, package, 1)
        \o (IF Call(self.matcher, package.name) THEN OwnNames(package) ELSE <<>>))

MatchName_filter(self, rs) == SelectSeq(rs, LAMBDA it : Call(self.matcher, it[1]))

RECURSIVE MatchDesc_versions(_, _, _)
MatchDesc_versions(matcher, package, i) ==
    IF i > Len(package.versions) THEN <<>>
    ELSE (IF Call(matcher, package.versions[i].long_desc)
          THEN ProvidesOf(package, i) \o <<<<package.name, Ref(package, i)>>>>
          ELSE <<>>)
         \o MatchDesc_versions(matcher, package, i + 1)

MatchDesc_match(self, package) ==
    SortedByKey(MatchDesc_versions(self.matcher, package, 1))

MatchDesc_filter(self, rs) ==
    SelectSeq(rs, LAMBDA it : Call(self.matcher, VersionOf(it[2]).long_desc))

Installed_match(self, package) ==
    IF Installed_(package) # None
    THEN <<<<package.name, Installed_(package)>>>>
    ELSE <<>>

Installed_filter(self, rs) ==
    SelectSeq(rs, LAMBDA it : /\ PackageOf(it[2]).name = it[1]
                           /\ Installed_(PackageOf(it[2])) = it[2])

Nonvirtual_match(self, package) == OwnNames(package)

Nonvirtual_filter(self, rs) ==
    SelectSeq(rs, LAMBDA it : it[1] = PackageOf(it[2]).name)

RECURSIVE MatchArch_versions(_, _, _)
MatchArch_versions(arch, package, i) ==
    IF i > Len(package.versions) THEN <<>>
    ELSE (IF package.versions[i].architecture \notin Range(arch)
          THEN <<>>
          ELSE ProvidesOf(package, i) \o <<<<package.name, Ref(package, i)>>>>)
         \o MatchArch_versions(arch, package, i + 1)

MatchArch_match(self, package) == MatchArch_versions(self.arch, package, 1)

MatchArch_filter(self, rs) ==
    SelectSeq(rs, LAMBDA it : VersionOf(it[2]).architecture \in Range(self.arch))

RECURSIVE Dedup(_, _)
\* merged[i] for i in range(len(merged)) if i == 0 or keys[i] != keys[i-1]
Dedup(merged, i) ==
    IF i > Len(merged) THEN <<>>
    ELSE (IF i = 1 \/ namever_key(merged[i]) # namever_key(merged[i - 1])
          THEN <<merged[i]>> ELSE <<>>)
         \o Dedup(merged, i + 1)

\* _combine without the removal of duplicates
OrCombiner_combine_NoDedup(left, right) == SortedByKey(left \o right)

\* OrCombiner._combine
OrCombiner_combine(left, right) == Dedup(SortedByKey(left \o right), 1)

(* The outcome of evaluating a matcher: the value returned, the calls made  *)
(* on atomic matchers in the order they were made, and whether the           *)
(* evaluation raised AttributeError (the lambda has no match and no filter). *)
Returns(val, calls) == [val |-> val, calls |-> calls, err |-> FALSE]

Raises(calls) == [val |-> <<>>, calls |-> calls, err |-> TRUE]

RECURSIVE Match(_, _), Filter(_, _)

\* AndCombiner.match without the early return for an empty left result
AndCombiner_match_NoShortCircuit(self, package) ==
    LET l == Match(self.left, package) IN
    IF l.err THEN l
    ELSE LET r == Filter(self.right, l.val) IN
         [r EXCEPT !.calls = l.calls \o r.calls]

AndCombiner_match(self, package) ==
    LET l == Match(self.left, package) IN
    IF l.err THEN l
    ELSE IF l.val = <<>> THEN Returns(<<>>, l.calls)
    ELSE LET r == Filter(self.right, l.val) IN
         [r EXCEPT !.calls = l.calls \o r.calls]

AndCombiner_filter(self, rs) ==
    LET l == Filter(self.left, rs) IN
    IF l.err THEN l
    ELSE IF l.val = <<>> THEN Returns(<<>>, l.calls)
    ELSE LET r == Filter(self.right, l.val) IN
         [r EXCEPT !.calls = l.calls \o r.calls]

OrCombiner_match(self, package) ==
    LET l == Match(self.left, package) IN
    IF l.err THEN l
    ELSE LET r == Match(self.right, package) IN
         IF r.err THEN Raises(l.calls \o r.calls)
         ELSE Returns(OrCombiner_combine(l.val, r.val), l.calls \o r.calls)

OrCombiner_filter(self, rs) ==
    LET l == Filter(self.left, rs) IN
    IF l.err THEN l
    ELSE LET r == Filter(self.right, rs) IN
         IF r.err THEN Raises(l.calls \o r.calls)
         ELSE Returns(OrCombiner_combine(l.val, r.val), l.calls \o r.calls)

\* self.match(package), dispatched on the class of self
Match(self, package) ==
    CASE self.tag = "AndCombiner" -> AndCombiner_match(self, package)
      [] self.tag = "OrCombiner" -> OrCombiner_match(self, package)
      [] self.tag = "MatchName" ->
            Returns(MatchName_match(self, package), <<<<"match", self>>>>)
      [] self.tag = "MatchDesc" ->
            Returns(MatchDesc_match(self, package), <<<<"match", self>>>>)
      [] self.tag = "Installed" ->
            Returns(Installed_match(self, package), <<<<"match", self>>>>)
      [] self.tag = "Nonvirtual" ->
            Returns(Nonvirtual_match(self, package), <<<<"match", self>>>>)
      [] self.tag = "MatchArch" ->
            Returns(MatchArch_match(self, package), <<<<"match", self>>>>)
      [] OTHER -> Raises(<<>>)

\* self.filter(rs), dispatched on the class of self
Filter(self, rs) ==
    CASE self.tag = "AndCombiner" -> AndCombiner_filter(self, rs)
      [] self.tag = "OrCombiner" -> OrCombiner_filter(self, rs)
      [] self.tag = "MatchName" ->
            Returns(MatchName_filter(self, rs), <<<<"filter", self>>>>)
      [] self.tag = "MatchDesc" ->
            Returns(MatchDesc_filter(self, rs), <<<<"filter", self>>>>)
      [] self.tag = "Installed" ->
            Returns(Installed_filter(self, rs), <<<<"filter", self>>>>)
      [] self.tag = "Nonvirtual" ->
            Returns(Nonvirtual_filter(self, rs), <<<<"filter", self>>>>)
      [] self.tag = "MatchArch" ->
            Returns(MatchArch_filter(self, rs), <<<<"filter", self>>>>)
      [] OTHER -> Raises(<<>>)

----------------------------------------------------------------------------
(* The matcher algebra on its own: a matcher is evaluated against one      *)
(* package with match, and applied with filter to the sorted sequence of    *)
(* all possible matches of the package and to an arbitrary sequence.        *)

RECURSIVE AllVersions(_, _)
\* every (provided name, v) and every (package name, v) of the package
AllVersions(package, i) ==
    IF i > Len(package.versions) THEN <<>>
    ELSE ProvidesOf(package, i) \o <<<<package.name, Ref(package, i)>>>>
         \o AllVersions(package, i + 1)

AllPossible(package) == SortedByKey(AllVersions(package, 1))

IdleSearch ==
    /\ args = <<>> /\ pc = "idle" /\ conds = <<>> /\ cond = None
    /\ opened = FALSE /\ matched = <<>> /\ results = <<>> /\ stdout = <<>>
    /\ exc = None /\ ret = None

IdleAlg ==
    /\ m = None /\ input = <<>> /\ mres = None /\ fres = None /\ ares = None

IdleFmt ==
    /\ target = "format" /\ argv = <<>> /\ config = <<>> /\ fexc = None
    /\ fpc = "idle"

IdleCls == item = None /\ flags = None

Atoms ==
    {MatchName(Contains(<<"a">>)), MatchDesc(ContainsNoCase(<<"X">>)),
     Installed, Nonvirtual, MatchArch(<<>>), MatchArch(amd64)}

Pairs ==
    {AndCombiner(a, b) : a \in Atoms, b \in Atoms}
    \cup {OrCombiner(a, b) : a \in Atoms, b \in Atoms}

\* the compiler builds right-leaning chains
Chains ==
    {AndCombiner(a, t) : a \in Atoms, t \in Pairs}
    \cup {OrCombiner(a, t) : a \in Atoms, t \in Pairs}

Matchers == Atoms \cup Pairs \cup Chains

InitAlg ==
    /\ defarch \in Archs
    /\ cache \in {<<p>> : p \in PackagePool}
    /\ m \in Matchers
    /\ input = <<>> /\ mres = None /\ fres = None /\ ares = None
    /\ IdleSearch /\ IdleFmt /\ IdleCls

\* m.match(package)
AlgMatch ==
    /\ m # None /\ mres = None
    /\ mres' = Match(m, cache[1])
    /\ UNCHANGED <<cache, defarch, m, input, fres, ares, searchVars, fmtVars, clsVars>>

\* m.filter(all possible matches of the package, in sort-key order)
AlgFilterAll ==
    /\ m # None /\ mres # None /\ ares = None
    /\ ares' = Filter(m, AllPossible(cache[1]))
    /\ UNCHANGED <<cache, defarch, m, input, mres, fres, searchVars, fmtVars, clsVars>>

\* m.filter(input) for a sequence of matches of the package, in any order
AlgFilter ==
    /\ m # None /\ ares # None /\ fres = None
    /\ \E rs \in SeqsUpTo(Range(AllPossible(cache[1])), MaxInput) :
          /\ input' = rs
          /\ fres' = Filter(m, rs)
    /\ UNCHANGED <<cache, defarch, m, mres, ares, searchVars, fmtVars, clsVars>>

NextAlg == AlgMatch \/ AlgFilterAll \/ AlgFilter

SpecAlg == InitAlg /\ [][NextAlg]_vars

----------------------------------------------------------------------------
(* search(config, args): the query compiler. *)

KeyError(key) == [type |-> "KeyError", key |-> key]

IndexError == [type |-> "IndexError"]

AttributeError == [type |-> "AttributeError"]

\* the dictionary of constructors in make_search, applied to rem
Atom(op, rem) ==
    CASE op = "n" -> MatchName(Contains(rem))
      [] op = "d" -> MatchDesc(ContainsNoCase(rem))
      [] op = "i" -> Installed
      [] op = "a" -> MatchArch(rem)
      [] op = "p" -> Nonvirtual

RECURSIVE Clauses(_, _, _)
\* the "while arg" loop of make_search
Clauses(arg, cs, has_arch) ==
    IF arg = <<>> THEN [exc |-> None, conds |-> cs, has_arch |-> has_arch]
    ELSE IF arg[1] = "~" /\ Len(arg) < 2
    THEN [exc |-> IndexError, conds |-> cs, has_arch |-> has_arch]
    ELSE
        LET op == IF arg[1] = "~" THEN arg[2] ELSE "n"
            rem0 == IF arg[1] = "~" THEN From(arg, 2) ELSE arg
            nextop == Find(rem0, "~")
            rem == IF op \in {"n", "d", "a"}
                   THEN (IF nextop # -1 THEN UpTo(rem0, nextop) ELSE rem0)
                   ELSE <<>>
            rest == IF op \in {"n", "d", "a"}
                    THEN (IF nextop # -1 THEN From(rem0, nextop) ELSE <<>>)
                    ELSE rem0
        IN  IF op = "a" /\ rem = any
            THEN Clauses(rest, cs, TRUE)
            ELSE IF op \notin {"n", "d", "i", "a", "p"}
            THEN [exc |-> KeyError(op), conds |-> cs,
                  has_arch |-> has_arch \/ op = "a"]
            ELSE Clauses(rest, Append(cs, Atom(op, rem)), has_arch \/ op = "a")

RECURSIVE FoldAnd(_, _)
\* while conds: cond = AndCombiner(conds.pop(), cond)
FoldAnd(cs, acc) ==
    IF cs = <<>> THEN acc
    ELSE FoldAnd(UpTo(cs, Len(cs) - 1), AndCombiner(cs[Len(cs)], acc))

RECURSIVE FoldOr(_, _)
\* while conds: cond = OrCombiner(conds.pop(), cond)
FoldOr(cs, acc) ==
    IF cs = <<>> THEN acc
    ELSE FoldOr(UpTo(cs, Len(cs) - 1), OrCombiner(cs[Len(cs)], acc))

\* make_search(arg): the exception it raises, or the matcher it returns
make_search(arg) ==
    LET parsed == Clauses(arg, <<>>, FALSE)
        cs == IF parsed.conds # <<>> /\ ~parsed.has_arch
              THEN Append(parsed.conds, MatchArch(<<>>))
              ELSE parsed.conds
    IN  IF parsed.exc # None THEN [exc |-> parsed.exc, matcher |-> None]
        ELSE IF cs = <<>> THEN [exc |-> None, matcher |-> Lambda]
        ELSE [exc |-> None,
              matcher |-> FoldAnd(UpTo(cs, Len(cs) - 1), cs[Len(cs)])]

----------------------------------------------------------------------------
(* search(config, args): classification of one result. *)

\* the dict.get of the installed branch
InstalledState(current_state) ==
    CASE current_state = "CONFIG_FILES" -> "c"
      [] current_state = "HALF_CONFIGURED" -> "C"
      [] current_state = "HALF_INSTALLED" -> "I"
      [] current_state = "UNPACKED" -> "z"
      [] current_state = "INSTALLED" -> "i"
      [] OTHER -> "?"

\* the dict.get of the candidate branch
CandidateState(current_state) ==
    CASE current_state = "CONFIG_FILES" -> "c"
      [] current_state = "HALF_CONFIGURED" -> "C"
      [] current_state = "HALF_INSTALLED" -> "I"
      [] current_state = "UNPACKED" -> "z"
      [] OTHER -> "p"

\* the state character with the broken test after the status lookup
State_StatusBeforeBroken(name, version) ==
    LET package == PackageOf(version) IN
    IF package.name # name THEN "v"
    ELSE IF Installed_(package) = version
    THEN (IF InstalledState(package.current_state) # "?"
          THEN InstalledState(package.current_state)
          ELSE IF package.is_now_broken THEN "b" ELSE "?")
    ELSE IF Installed_(package) = None /\ Candidate(package) = version
    THEN CandidateState(package.current_state)
    ELSE "p"

\* the state character of the result (name, version)
State(name, version) ==
    LET package == PackageOf(version) IN
    IF package.name # name THEN "v"
    ELSE IF Installed_(package) = version
    THEN (IF package.is_now_broken THEN "b"
          ELSE InstalledState(package.current_state))
    ELSE IF Installed_(package) = None /\ Candidate(package) = version
    THEN CandidateState(package.current_state)
    ELSE "p"

\* the local variable installed
IsInstalled(name, version) ==
    LET package == PackageOf(version) IN
    /\ package.name = name
    /\ \/ Installed_(package) = version
       \/ Installed_(package) = None /\ Candidate(package) = version

Automatic(name, version) ==
    LET package == PackageOf(version) IN
    IF ~IsInstalled(name, version) THEN " "
    ELSE CASE package.is_auto_installed /\ package.is_auto_removable -> "R"
           [] package.is_auto_installed /\ ~package.is_auto_removable -> "A"
           [] ~package.is_auto_installed /\ ~package.is_auto_removable -> " "
           [] ~package.is_auto_installed /\ package.is_auto_removable -> "?"

SelectChar(name, version) ==
    LET package == PackageOf(version) IN
    IF \/ Installed_(package) # None /\ Installed_(package) = version
       \/ Installed_(package) = None /\ Candidate(package) = version
    THEN CASE package.selected_state = "INSTALL" -> "i"
           [] package.selected_state = "DEINSTALL" -> "d"
           [] package.selected_state = "HOLD" -> "h"
           [] package.selected_state = "PURGE" -> "p"
           [] package.selected_state = "UNKNOWN" -> "?"
           [] OTHER -> " "
    ELSE " "

Upgrade(name, version) ==
    IF IsInstalled(name, version) /\ PackageOf(version).is_upgradable
    THEN "u" ELSE " "

\* the body of "for name, version in results" up to the print
Classify(name, version) ==
    [virtual |-> PackageOf(version).name # name,
     state |-> State(name, version),
     automatic |-> Automatic(name, version),
     select |-> SelectChar(name, version),
     upgrade |-> Upgrade(name, version)]

Max(S) == CHOOSE x \in S : \A y \in S : y <= x

\* the line printed for results[k]
Line(rs, k) ==
    LET name == rs[k][1]
        version == rs[k][2]
        c == Classify(name, version)
    IN  [kind |-> "result",
         lineformat |-> IF c.virtual THEN "vformat" ELSE "format",
         namelen |-> Max({Len(r[1]) : r \in Range(rs)}),
         verlen |-> Max({Len(VersionOf(r[2]).version) : r \in Range(rs)}),
         state |-> c.state, automatic |-> c.automatic, upgrade |-> c.upgrade,
         arch |-> VersionOf(version).architecture,
         name |-> name,
         packagename |-> PackageOf(version).name,
         version |-> VersionOf(version).version,
         summary |-> VersionOf(version).summary]

\* classification on its own: one (name, version) of one package
ClsPackages ==
    {[PkgA EXCEPT !.installed = i, !.candidate = c, !.is_now_broken = b,
                  !.current_state = cs, !.selected_state = ss,
                  !.is_auto_installed = ai, !.is_auto_removable = ar,
                  !.is_upgradable = up] :
        i \in 0..Len(PkgA.versions), c \in 0..Len(PkgA.versions),
        b \in BOOLEAN, cs \in CurStates, ss \in SelStates,
        ai \in BOOLEAN, ar \in BOOLEAN, up \in BOOLEAN}

InitClassify ==
    /\ defarch = amd64
    /\ cache \in {<<p>> : p \in ClsPackages}
    /\ item \in Range(AllPossible(cache[1]))
    /\ flags = None
    /\ IdleSearch /\ IdleAlg /\ IdleFmt

ClassifyItem ==
    /\ item # None /\ flags = None
    /\ flags' = Classify(item[1], item[2])
    /\ UNCHANGED <<cache, defarch, item, searchVars, algVars, fmtVars>>

NextClassify == ClassifyItem

SpecClassify == InitClassify /\ [][NextClassify]_vars

----------------------------------------------------------------------------
(* search(config, args), from the call to the return or the exception.     *)
(* config holds no format override here, so the default formats are used.  *)

s_a == <<"a">>
s_b == <<"b">>
tilde == <<"~">>

\* the pattern tokens a search is called with
TokenPool ==
    {<<>>, s_a, s_b,
     tilde \o <<"n">> \o s_b,
     tilde \o <<"d">> \o <<"X">>,
     tilde \o <<"i">>,
     tilde \o <<"p">>,
     tilde \o <<"a">>,
     tilde \o <<"a">> \o any,
     tilde \o <<"a">> \o amd64,
     s_a \o tilde \o <<"a">> \o any,
     s_a \o tilde \o <<"p">> \o tilde \o <<"i">>,
     tilde \o <<"x">>,
     s_a \o tilde \o <<"x">>,
     tilde}

Init ==
    /\ defarch \in Archs
    /\ cache \in Caches
    /\ args \in SeqsUpTo(TokenPool, MaxArgs)
    /\ pc = "compile"
    /\ conds = <<>> /\ cond = None /\ opened = FALSE /\ matched = <<>>
    /\ results = <<>> /\ stdout = <<>> /\ exc = None /\ ret = None
    /\ IdleAlg /\ IdleFmt /\ IdleCls

\* one iteration of "for arg in args: conds.append(make_search(arg))"
Compile ==
    /\ pc = "compile" /\ Len(conds) < Len(args)
    /\ LET made == make_search(args[Len(conds) + 1]) IN
       IF made.exc # None
       THEN /\ exc' = made.exc
            /\ pc' = "raised"
            /\ UNCHANGED conds
       ELSE /\ conds' = Append(conds, made.matcher)
            /\ UNCHANGED <<exc, pc>>
    /\ UNCHANGED <<cache, defarch, args, cond, opened, matched, results, stdout,
                   ret, algVars, fmtVars, clsVars>>

\* the fold of conds with OrCombiner, "print cond", and the test "if cond"
Combine ==
    /\ pc = "compile" /\ Len(conds) = Len(args)
    /\ cond' = IF conds = <<>> THEN None
               ELSE FoldOr(UpTo(conds, Len(conds) - 1), conds[Len(conds)])
    /\ stdout' = Append(stdout, [kind |-> "repr", value |-> cond'])
    /\ pc' = IF cond' # None THEN "open" ELSE "report"
    /\ UNCHANGED <<cache, defarch, args, conds, opened, matched, results, exc,
                   ret, algVars, fmtVars, clsVars>>

\* cache = apt.Cache()
OpenCache ==
    /\ pc = "open"
    /\ opened' = TRUE
    /\ pc' = "match"
    /\ UNCHANGED <<cache, defarch, args, conds, cond, matched, results, stdout,
                   exc, ret, algVars, fmtVars, clsVars>>

\* one iteration of "[cond.match(p) for p in cache]"
MatchPackage ==
    /\ pc = "match" /\ Len(matched) < Len(cache)
    /\ LET r == Match(cond, cache[Len(matched) + 1]) IN
       IF r.err
       THEN /\ exc' = AttributeError
            /\ pc' = "raised"
            /\ UNCHANGED matched
       ELSE /\ matched' = Append(matched, r.val)
            /\ UNCHANGED <<exc, pc>>
    /\ UNCHANGED <<cache, defarch, args, conds, cond, opened, results, stdout,
                   ret, algVars, fmtVars, clsVars>>

\* results = sorted(itertools.chain(*results), key=namever_key)
SortResults ==
    /\ pc = "match" /\ Len(matched) = Len(cache)
    /\ results' = SortedByKey(Concat(matched))
    /\ pc' = "report"
    /\ UNCHANGED <<cache, defarch, args, conds, cond, opened, matched, stdout,
                   exc, ret, algVars, fmtVars, clsVars>>

\* a value returned by search(), told apart from None
Returned(value) == [value |-> value]

\* if not results: print "No results for search"; return 1
NoResults ==
    /\ pc = "report" /\ results = <<>>
    /\ stdout' = Append(stdout, [kind |-> "text", text |-> "No results for search"])
    /\ ret' = Returned(1)
    /\ pc' = "done"
    /\ UNCHANGED <<cache, defarch, args, conds, cond, opened, matched, results,
                   exc, algVars, fmtVars, clsVars>>

\* the result lines printed so far
Printed == Cardinality({i \in 1..Len(stdout) : stdout[i].kind = "result"})

\* one iteration of "for name, version in results": classify and print
Render ==
    /\ pc = "report" /\ Printed < Len(results)
    /\ stdout' = Append(stdout, Line(results, Printed + 1))
    /\ UNCHANGED <<cache, defarch, args, pc, conds, cond, opened, matched,
                   results, exc, ret, algVars, fmtVars, clsVars>>

\* the end of search(): the function returns None
Return ==
    /\ pc = "report" /\ results # <<>> /\ Printed = Len(results)
    /\ pc' = "done"
    /\ UNCHANGED <<cache, defarch, args, conds, cond, opened, matched, results,
                   stdout, exc, ret, algVars, fmtVars, clsVars>>

\* main: "return command(config, args) or 0", and 127 for an exception
ExitStatus ==
    IF pc = "raised" THEN 127 ELSE IF ret = None THEN 0 ELSE ret.value

Next ==
    \/ Compile \/ Combine \/ OpenCache \/ MatchPackage \/ SortResults
    \/ NoResults \/ Render \/ Return

Spec == Init /\ [][Next]_vars

----------------------------------------------------------------------------
(* search_format(target, config, argv): the format option compiler.        *)
(* The compiled format is a sequence of literal characters and of the      *)
(* conversion specifiers appended for the placeholders.                    *)

InvalidOption == [type |-> "InvalidOption"]

UnknownFormat(fmtchar) == [type |-> "Exception", fmtchar |-> fmtchar]

\* the format characters the if/elif chain on fmtchar knows
FieldChars == {"n", "v", "a", "p", "d", "s", "A", "u"}

\* the if/elif chain on fmtchar: the text appended
Specifier(fmtchar, align) ==
    CASE fmtchar = "n" ->
            IF align THEN "%%(name)-%(namelen)ds" ELSE "%%(name)s"
      [] fmtchar = "v" ->
            IF align THEN "%%(version)-%(verlen)ds" ELSE "%%(version)s"
      [] fmtchar = "a" -> IF align THEN "%%(arch)-6s" ELSE "%%(arch)s"
      [] fmtchar = "p" -> "%%(packagename)s"
      [] fmtchar = "d" -> "%%(summary)s"
      [] fmtchar = "s" -> "%%(state)s"
      [] fmtchar = "A" -> "%%(automatic)s"
      [] fmtchar = "u" -> "%%(upgrade)s"

RECURSIVE Compiled(_, _)
\* the "while fmtarg" loop of search_format
Compiled(fmtarg, format) ==
    IF fmtarg = <<>> THEN [exc |-> None, format |-> format]
    ELSE
        LET index == Find(fmtarg, "%") IN
        IF index < 0 THEN [exc |-> None, format |-> format \o fmtarg]
        ELSE
            LET format1 == format \o UpTo(fmtarg, index)
                fmtarg1 == From(fmtarg, index + 1)
            IN
            IF fmtarg1 = <<>> THEN [exc |-> IndexError, format |-> format1]
            ELSE
                LET align == fmtarg1[1] = "|"
                    fmtarg2 == IF align THEN From(fmtarg1, 1) ELSE fmtarg1
                IN
                IF fmtarg2 = <<>> THEN [exc |-> IndexError, format |-> format1]
                ELSE
                    LET fmtchar == fmtarg2[1] IN
                    IF fmtchar \notin FieldChars
                    THEN [exc |-> UnknownFormat(fmtchar), format |-> format1]
                    ELSE Compiled(From(fmtarg2, 1),
                                  Append(format1, Specifier(fmtchar, align)))

FmtChars == {"%", "|", "n", "v", "a", "p", "d", "s", "A", "u", "x", "-"}

Overrides == SeqsUpTo(FmtChars, MaxFmtLen)

InitFormat ==
    /\ defarch = amd64
    /\ cache = <<>>
    /\ target \in {"format", "vformat"}
    /\ argv \in {<<>>} \cup {<<o>> : o \in Overrides}
                \cup {<<o, s_a>> : o \in Overrides}
    /\ config = <<>>
    /\ fexc = None
    /\ fpc = "call"
    /\ IdleSearch /\ IdleAlg /\ IdleCls

\* search_format raises
FormatRaises ==
    /\ fpc = "call"
    /\ \/ argv = <<>> /\ fexc' = InvalidOption
       \/ /\ argv # <<>>
          /\ Compiled(argv[1], <<>>).exc # None
          /\ fexc' = Compiled(argv[1], <<>>).exc
    /\ fpc' = "done"
    /\ UNCHANGED <<cache, defarch, target, argv, config, searchVars, algVars,
                   clsVars>>

\* search_format returns: config[target] = format; argv[:] = argv[1:]
FormatReturns ==
    /\ fpc = "call"
    /\ argv # <<>>
    /\ Compiled(argv[1], <<>>).exc = None
    /\ config' = [k \in DOMAIN config \cup {target} |->
                     IF k = target THEN Compiled(argv[1], <<>>).format
                     ELSE config[k]]
    /\ argv' = Tail(argv)
    /\ fpc' = "done"
    /\ UNCHANGED <<cache, defarch, target, fexc, searchVars, algVars, clsVars>>

NextFormat == FormatRaises \/ FormatReturns

SpecFormat == InitFormat /\ [][NextFormat]_vars

----------------------------------------------------------------------------
(* Properties. *)

\* ascending by sort key
IsSortedByKey(s) ==
    \A i \in 1..(Len(s) - 1) : ~KeyLess(namever_key(s[i + 1]), namever_key(s[i]))

\* no two entries share a sort key
NoDupKeys(s) ==
    \A i, j \in 1..Len(s) : namever_key(s[i]) = namever_key(s[j]) => i = j

RECURSIVE IsSubsequence(_, _)
\* s is t with some elements left out
IsSubsequence(s, t) ==
    IF s = <<>> THEN TRUE
    ELSE IF t = <<>> THEN FALSE
    ELSE IF Head(s) = Head(t) THEN IsSubsequence(Tail(s), Tail(t))
    ELSE IsSubsequence(s, Tail(t))

RECURSIVE HasOr(_)
HasOr(x) ==
    CASE x.tag = "OrCombiner" -> TRUE
      [] x.tag = "AndCombiner" -> HasOr(x.left) \/ HasOr(x.right)
      [] OTHER -> FALSE

\* what the matcher compiled from one token yields for a package when used on
\* its own: the lambda of a token without clauses is called and yields []
Yield(matcher, package) ==
    IF matcher = Lambda THEN <<>> ELSE Match(matcher, package).val

\* C1: the query compiled from two tokens yields, for every package, the
\* union of what the two per-token matchers yield, sorted by sort key and
\* without two entries of the same sort key.
C1_OrYieldsUnion ==
    (/\ Len(args) = 2
     /\ make_search(args[1]).exc = None
     /\ make_search(args[2]).exc = None)
    => /\ exc = None
       /\ \A i \in 1..Len(matched) :
            /\ IsSortedByKey(matched[i])
            /\ NoDupKeys(matched[i])
            /\ Range(matched[i]) =
                  Range(Yield(make_search(args[1]).matcher, cache[i]))
                  \cup Range(Yield(make_search(args[2]).matcher, cache[i]))

\* C2: the final result sequence is sorted ascending by sort key and no two of
\* its entries have the same sort key.
C2_ResultsSortedDeduplicated ==
    pc \in {"report", "done"} => IsSortedByKey(results) /\ NoDupKeys(results)

\* every version of the index
AllRefs == UNION {Range(Versions(cache[i])) : i \in 1..Len(cache)}

\* the versions of the final result sequence
VersionsMatched == {r[2] : r \in Range(results)}

\* the versions with a name (own or provided) that contains a
NamedA ==
    {v \in AllRefs :
        \/ IsSubstring(s_a, PackageOf(v).name)
        \/ \E k \in 1..Len(VersionOf(v).provides) :
              IsSubstring(s_a, VersionOf(v).provides[k])}

\* C3: a token "~a" keeps only the versions of the default architecture or
\* "all"; a token that contains "~aany", alone or with other clauses, matches
\* the versions of every architecture; "~aamd64" keeps only amd64 versions.
C3_ArchSelection ==
    Len(args) = 1 =>
        /\ args[1] = tilde \o <<"a">> =>
              /\ pc # "raised"
              /\ pc \in {"report", "done"} =>
                    VersionsMatched =
                        {v \in AllRefs : VersionOf(v).architecture \in {defarch, all}}
        /\ args[1] = tilde \o <<"a">> \o amd64 =>
              /\ pc # "raised"
              /\ pc \in {"report", "done"} =>
                    VersionsMatched =
                        {v \in AllRefs : VersionOf(v).architecture = amd64}
        /\ args[1] = tilde \o <<"a">> \o any =>
              /\ pc # "raised"
              /\ pc \in {"report", "done"} => VersionsMatched = AllRefs
        /\ args[1] = s_a \o tilde \o <<"a">> \o any =>
              /\ pc # "raised"
              /\ pc \in {"report", "done"} => VersionsMatched = NamedA

\* C4: filter applied to the sort-key-ordered sequence of all possible matches
\* of a package returns what match returns for the package, which is sorted by
\* sort key; filter returns no element that match does not.
C4_FilterOfAllIsMatch ==
    (mres # None /\ ares # None) =>
        /\ ares.val = mres.val
        /\ IsSortedByKey(mres.val)
        /\ Range(ares.val) \subseteq Range(mres.val)

\* C5 as stated: for every matcher and every input, sorted or not, filter
\* returns a subsequence of its input.
C5_FilterIsSubsequence ==
    fres # None => IsSubsequence(fres.val, input)

\* C5: filter returns a subsequence of its input for every matcher without an
\* OrCombiner whatever the order of the input, and for a matcher with an
\* OrCombiner when the input is sorted by sort key.
C5_FilterIsSubsequenceOfSorted ==
    (fres # None /\ (~HasOr(m) \/ IsSortedByKey(input)))
    => IsSubsequence(fres.val, input)

\* an OrCombiner has filtered a sorted input of two matches and kept both
C5_Witness ==
    /\ fres # None
    /\ m.tag = "OrCombiner"
    /\ Len(input) >= 2 /\ input[1] # input[2]
    /\ IsSortedByKey(input)
    /\ fres.val = input

\* a "~" followed by a character that selects no atom
BadSelector(token) ==
    \E i \in 1..(Len(token) - 1) :
        token[i] = "~" /\ token[i + 1] \notin {"n", "d", "i", "a", "p"}

\* the text of the error contains the token
NamesToken(e, token) == e.type = "KeyError" /\ IsSubstring(token, <<e.key>>)

\* C6: a token with a bad selector, at any position, makes the compilation
\* fail as a whole with an error that names the token, before the index is
\* opened and without a result line.
C6_BadSelectorFailsNamingToken ==
    (\E i \in 1..Len(args) : BadSelector(args[i])) =>
        /\ pc \in {"compile", "raised"}
        /\ ~opened
        /\ \A i \in 1..Len(stdout) : stdout[i].kind # "result"
        /\ pc = "raised" =>
              \E i \in 1..Len(args) : BadSelector(args[i]) /\ NamesToken(exc, args[i])

RECURSIVE Placeholders(_)
\* the placeholders of an override, by the grammar: "%", an optional "|", and
\* the field character ("" where the override ends before it)
Placeholders(o) ==
    LET index == Find(o, "%") IN
    IF index < 0 THEN {}
    ELSE LET rest == From(o, index + 1)
             align == rest # <<>> /\ rest[1] = "|"
             after == IF align THEN From(rest, 1) ELSE rest
         IN  IF after = <<>> THEN {[align |-> align, field |-> ""]}
             ELSE {[align |-> align, field |-> after[1]]}
                  \cup Placeholders(From(after, 1))

UnknownField(o) ==
    \E ph \in Placeholders(o) :
        ph.field \notin {"n", "v", "a", "p", "d", "s", "A", "u"}

UnsupportedAlign(o) ==
    \E ph \in Placeholders(o) : ph.align /\ ph.field \in {"p", "d"}

\* C7: search_format raises, leaving config and argv as they were, for every
\* override with an unknown field character and for every override that uses
\* "|" on p or d; it succeeds only for the other overrides.
C7_MalformedOverrideRaises ==
    [][(fpc = "call" /\ argv # <<>>) =>
          /\ (UnknownField(argv[1]) \/ UnsupportedAlign(argv[1])) =>
                fexc' # None /\ config' = config /\ argv' = argv
          /\ fexc' = None =>
                ~UnknownField(argv[1]) /\ ~UnsupportedAlign(argv[1])]_vars

\* the status codes with a character, by the classification table
StatusChar ==
    [CONFIG_FILES |-> "c", HALF_CONFIGURED |-> "C", HALF_INSTALLED |-> "I",
     UNPACKED |-> "z", INSTALLED |-> "i"]

\* C8: the state character is 'v' for a virtual result; for the installed
\* version 'b' when the package is broken and else the status character,
\* '?' by default; for the candidate of a package with nothing installed the
\* status character of a not fully installed state, 'p' by default; else 'p'.
C8_StateIsTotalFunction ==
    flags # None =>
        LET package == cache[1]
            name == item[1]
            version == item[2]
            cs == package.current_state
            isinst == package.installed = version.idx
            iscand == package.installed = 0 /\ package.candidate = version.idx
        IN  /\ flags.state \in {"v", "b", "c", "C", "I", "z", "i", "?", "p"}
            /\ name # package.name => flags.state = "v"
            /\ (name = package.name /\ isinst /\ package.is_now_broken)
                  => flags.state = "b"
            /\ (name = package.name /\ isinst /\ ~package.is_now_broken)
                  => flags.state =
                        IF cs \in DOMAIN StatusChar THEN StatusChar[cs] ELSE "?"
            /\ (name = package.name /\ ~isinst /\ iscand)
                  => flags.state =
                        IF cs \in DOMAIN StatusChar \ {"INSTALLED"}
                        THEN StatusChar[cs] ELSE "p"
            /\ (name = package.name /\ ~isinst /\ ~iscand) => flags.state = "p"

\* the installed version of a broken package whose status code is INSTALLED
\* has been classified
C8_Witness ==
    /\ flags # None
    /\ item[1] = cache[1].name
    /\ cache[1].installed = item[2].idx
    /\ cache[1].is_now_broken
    /\ cache[1].current_state = "INSTALLED"
    /\ flags.state = "b"

\* C9: search prints one line per element of the final result sequence, in its
\* order, and exits with status zero when the sequence is not empty; when it is
\* empty it prints a single diagnostic line and exits with a non-zero status.
C9_OneLinePerResult ==
    pc = "done" =>
        /\ results # <<>> =>
              /\ Len(stdout) = Len(results)
              /\ \A i \in 1..Len(stdout) :
                    /\ stdout[i].kind = "result"
                    /\ i <= Len(results)
                    /\ stdout[i].name = results[i][1]
                    /\ stdout[i].packagename = PackageOf(results[i][2]).name
                    /\ stdout[i].version = VersionOf(results[i][2]).version
              /\ ExitStatus = 0
        /\ results = <<>> =>
              /\ Len(stdout) = 1
              /\ stdout[1].kind = "text"
              /\ ExitStatus # 0

\* C10: for atomic matchers a and b, AndCombiner(a, b).match(pkg) is a
\* subsequence of a.match(pkg), and when a.match(pkg) is empty it is empty and
\* the only call made is a.match.
C10_AndMatchNarrowsLeft ==
    (/\ mres # None
     /\ m.tag = "AndCombiner"
     /\ m.left \in Atoms /\ m.right \in Atoms)
    => LET a == Match(m.left, cache[1]).val IN
       /\ ~mres.err
       /\ IsSubsequence(mres.val, a)
       /\ a = <<>> => mres.val = <<>> /\ mres.calls = <<<<"match", m.left>>>>

\* AndCombiner(a, b).match has dropped some but not all of a.match(pkg)
C10_Witness ==
    /\ mres # None
    /\ m.tag = "AndCombiner"
    /\ m.left \in Atoms /\ m.right \in Atoms
    /\ mres.val # <<>>
    /\ Len(mres.val) < Len(Match(m.left, cache[1]).val)

====
